---------------------------- MODULE Spec2Model ----------------------------
(***************************************************************************)
(* A model of the DEX/CEX execution-cost pipeline:                         *)
(*   - the three paginated fetchers (fetch_cowswap.py,                     *)
(*     scripts/fetch_uniswap_v2.py, scripts/fetch_uniswap_v3.py),          *)
(*   - the price normalizers, the mid-price resampler, the nearest-time    *)
(*     join and the size bucketizer of scripts/analyze.py.                 *)
(*                                                                         *)
(* Ids are modelled as naturals: 0 stands for the initial last_id "" and   *)
(* the subgraph's string order on ids is the order of the naturals.        *)
(* Decimal amounts and prices are integers; a float quotient a / b is the  *)
(* record [num |-> a, den |-> b], compared by cross-multiplication.        *)
(***************************************************************************)
EXTENDS Integers, Sequences, FiniteSets, TLC

VARIABLES
    \* ---- paginated fetcher
    venue,          \* which fetcher runs: "v2", "v3" or "cow"
    batch_size,     \* the batch_size argument
    store,          \* the upstream: id -> <<symbol, symbol>>, or <<>> when no record
    pc,             \* "loop", "post" (after the while loop), "returned", "raised"
    all_swaps,      \* all_swaps / all_orders: the rows accumulated so far
    last_id,        \* the pagination key
    responses,      \* the kind of each response received, in order
    result,         \* the table the fetcher returns
    \* ---- price normalizer
    pvenue,         \* which normalizer runs
    trade,          \* the raw trade row
    ppc,            \* "raw" or "priced"
    realized_price, \* the realized_price column of the row
    \* ---- mid-price resampler
    ticks,          \* binance_df: sequence of [datetime, mid_price]
    mpc,            \* "raw" or "resampled"
    df_resampled,   \* the output of compute_mid_prices
    \* ---- join and bucketizer
    df,             \* the DEX trades: [timestamp_dt, realized_price, trade_size_usd]
    midprices_df,   \* the mid-price rows: [datetime, mid_price]
    apc,            \* "loaded", "merged" or "bucketed"
    merged,         \* the output of merge_with_midprice
    grouped         \* the output of bucket_by_trade_size

fetchVars == <<venue, batch_size, store, pc, all_swaps, last_id, responses, result>>
priceVars == <<pvenue, trade, ppc, realized_price>>
midVars   == <<ticks, mpc, df_resampled>>
joinVars  == <<df, midprices_df, apc, merged, grouped>>
vars == <<fetchVars, priceVars, midVars, joinVars>>

-----------------------------------------------------------------------------
(* Bounds of the model *)

MaxId == 3          \* ids of upstream records are 1..MaxId
MaxBatch == 2       \* batch_size ranges over 1..MaxBatch
MaxAmount == 2      \* raw amounts range over 0..MaxAmount (v3: -MaxAmount..MaxAmount)
MaxTicks == 3       \* at most MaxTicks reference ticks
MaxTickTime == 5    \* tick times are 0..MaxTickTime, in half minutes
MaxTrades == 2      \* at most MaxTrades DEX trades in the join
MaxTime == 3        \* trade and mid-price times are 0..MaxTime, in units of 20 s
MaxSameTrades == 3  \* at most MaxSameTrades simultaneous trades in the bucketizer

-----------------------------------------------------------------------------
(* Helpers *)

Min(a, b) == IF a <= b THEN a ELSE b
Abs(a) == IF a >= 0 THEN a ELSE -a

SetMin(S) == CHOOSE x \in S : \A y \in S : x <= y
SetMax(S) == CHOOSE x \in S : \A y \in S : x >= y

RECURSIVE SortedSeq(_)
\* the elements of a finite set of integers, ascending
SortedSeq(S) == IF S = {} THEN <<>> ELSE <<SetMin(S)>> \o SortedSeq(S \ {SetMin(S)})

Range(s) == {s[i] : i \in 1..Len(s)}

-----------------------------------------------------------------------------
(* Paginated fetcher *)

Venues == {"v2", "v3", "cow"}

\* token_pair=("WETH", "USDT"), the default argument of the three fetchers
token_pair == <<"WETH", "USDT">>

\* the symbol pairs upstream records carry: token0/token1 of the pair or pool
\* of a swap, sellToken/buyToken of an order
SymbolPairs == { <<"WETH", "USDT">>, <<"USDT", "WETH">>, <<"WETH", "WETH">>,
                 <<"WETH", "DAI">>, <<"DAI", "DAI">> }

NoRecord == <<>>

Row(i) == [id |-> i, t0 |-> store[i][1], t1 |-> store[i][2]]

\* the ids the where-clause id_gt: $lastID selects
Matching == {i \in 1..MaxId : store[i] # NoRecord /\ i > last_id}

RowsOf(ids) == [k \in 1..Len(ids) |-> Row(ids[k])]

\* A response of the upstream: lacking "data", lacking the entity list inside
\* "data", or well-formed with some rows of id > last_id, ascending by id, at
\* most `first: batch_size` of them.
Responses ==
    { [kind |-> "no_data", rows |-> <<>>], [kind |-> "no_entity", rows |-> <<>>] }
    \cup { [kind |-> "ok", rows |-> RowsOf(SortedSeq(S))] :
             S \in {T \in SUBSET Matching : Cardinality(T) <= batch_size} }

\* The response of an upstream that holds exactly the records of `store` and
\* answers with the (at most batch_size) smallest ids above last_id.
KeysetResponse ==
    LET ids == SortedSeq(Matching)
    IN [kind |-> "ok", rows |-> RowsOf(SubSeq(ids, 1, Min(batch_size, Len(ids))))]

\* a plausible slip: the key of the first row of the page instead of the last
PageKeyFirst(rows) == rows[1].id

\* last_id = swaps[-1]["id"]
PageKey(rows) == rows[Len(rows)].id

\* One pass through the body of `while True`: one request, then the response
\* is handled.
LoopBody(resp) ==
    /\ responses' = Append(responses, IF resp.kind # "ok" THEN resp.kind
                                      ELSE IF resp.rows = <<>> THEN "empty" ELSE "page")
    /\ IF resp.kind # "ok"
         THEN \* "data" or the entity list is missing: print and break
              /\ pc' = "post"
              /\ UNCHANGED <<all_swaps, last_id>>
         ELSE IF resp.rows = <<>>
         THEN \* no more data: break
              /\ pc' = "post"
              /\ UNCHANGED <<all_swaps, last_id>>
         ELSE /\ all_swaps' = all_swaps \o resp.rows
              /\ last_id' = PageKey(resp.rows)
              /\ pc' = "loop"
    /\ UNCHANGED <<venue, batch_size, store, result>>

\* a loop pass against an upstream that may answer anything of the response shape
Iterate ==
    /\ pc = "loop"
    /\ \E resp \in Responses : LoopBody(resp)
    /\ UNCHANGED <<priceVars, midVars, joinVars>>

\* a loop pass against the keyset upstream
IterateKeyset ==
    /\ pc = "loop"
    /\ LoopBody(KeysetResponse)
    /\ UNCHANGED <<priceVars, midVars, joinVars>>

\* the membership test of the two swap fetchers
is_weth_usdt_swap(row) ==
    /\ \E k \in 1..Len(token_pair) : row.t0 = token_pair[k]
    /\ \E k \in 1..Len(token_pair) : row.t1 = token_pair[k]

\* the set comparison of the order fetcher
is_weth_usdt_order(row) == {row.t0, row.t1} = Range(token_pair)

is_weth_usdt(v, row) ==
    IF v = "cow" THEN is_weth_usdt_order(row) ELSE is_weth_usdt_swap(row)

\* The code after the loop: the table is built, the timestamp column is cast
\* and the rows are filtered.  pd.DataFrame([]) has no column: v2 returns it
\* at once, v3 and cow index the timestamp column and raise KeyError.
PostProcess ==
    /\ pc = "post"
    /\ IF all_swaps = <<>>
         THEN IF venue = "v2"
                THEN pc' = "returned" /\ result' = <<>>
                ELSE pc' = "raised" /\ UNCHANGED result
         ELSE /\ result' = SelectSeq(all_swaps, LAMBDA row : is_weth_usdt(venue, row))
              /\ pc' = "returned"
    /\ UNCHANGED <<venue, batch_size, store, all_swaps, last_id, responses>>
    /\ UNCHANGED <<priceVars, midVars, joinVars>>


-----------------------------------------------------------------------------
(* Price normalizer *)

\* the float quotient a / b; b = 0 gives an infinity (a # 0) or NaN (a = 0)
Div(a, b) == [num |-> a, den |-> b]

IsNaN(q) == q.num = 0 /\ q.den = 0

\* q > 0 as floats compare: a positive finite quotient or +inf; NaN > 0 is false
Positive(q) == IF q.den # 0 THEN q.num * q.den > 0 ELSE q.num > 0

Sign(a) == IF a > 0 THEN 1 ELSE IF a < 0 THEN -1 ELSE 0

\* p and q are the same float value (NaN taken as the same outcome as NaN)
SameQuotient(p, q) ==
    IF p.den # 0 /\ q.den # 0 THEN p.num * q.den = q.num * p.den
    ELSE p.den = 0 /\ q.den = 0 /\ Sign(p.num) = Sign(q.num)

\* np.where(amount0Out > 0, amount1In / amount0Out, amount0In / amount1Out)
compute_realized_prices_uniswap_v2(row) ==
    IF row.amount0Out > 0
      THEN Div(row.amount1In, row.amount0Out)
      ELSE Div(row.amount0In, row.amount1Out)

\* np.where(amount0 > 0, amount1 / amount0, amount0 / amount1)
compute_realized_prices_uniswap_v3(row) ==
    IF row.amount0 > 0
      THEN Div(row.amount1, row.amount0)
      ELSE Div(row.amount0, row.amount1)

\* buyAmount / sellAmount
compute_realized_prices_cowswap(row) == Div(row.buyAmount, row.sellAmount)

\* the normalizer of the venue fills the realized_price column of the row
Normalize ==
    /\ ppc = "raw"
    /\ realized_price' =
         CASE pvenue = "v2" -> compute_realized_prices_uniswap_v2(trade)
           [] pvenue = "v3" -> compute_realized_prices_uniswap_v3(trade)
           [] pvenue = "cow" -> compute_realized_prices_cowswap(trade)
    /\ ppc' = "priced"
    /\ UNCHANGED <<pvenue, trade>>
    /\ UNCHANGED <<fetchVars, midVars, joinVars>>

-----------------------------------------------------------------------------
(* Mid-price resampler *)

\* freq="1min", in the half-minute unit of the tick times
freq == 2

TickPrices == {100, 102}

\* resample(freq) puts a tick in the bucket that starts at or before it
BucketOf(t) == t \div freq

RECURSIVE SumOf(_, _, _)
\* the sum of column f of s over the rows of index in I
SumOf(s, I, f) ==
    IF I = {} THEN 0
    ELSE LET i == CHOOSE k \in I : TRUE IN s[i][f] + SumOf(s, I \ {i}, f)

TicksIn(s, b) == {i \in 1..Len(s) : BucketOf(s[i].datetime) = b}

\* .mean() of a bucket: NaN (0 / 0) for a bucket without tick
BucketMean(s, b) == Div(SumOf(s, TicksIn(s, b), "mid_price"), Cardinality(TicksIn(s, b)))

RECURSIVE BfillAt(_, _)
\* a plausible slip: bfill() for ffill()
BfillAt(s, i) ==
    IF ~IsNaN(s[i]) \/ i = Len(s) THEN s[i] ELSE BfillAt(s, i + 1)

RECURSIVE FfillAt(_, _)
\* .ffill(): a NaN takes the last valid value before it, a leading NaN stays
FfillAt(s, i) ==
    IF ~IsNaN(s[i]) \/ i = 1 THEN s[i] ELSE FfillAt(s, i - 1)

\* sort_values("datetime"), resample(freq).mean().ffill(), to_frame, reset_index
compute_mid_prices(binance_df) ==
    LET buckets == {BucketOf(binance_df[i].datetime) : i \in 1..Len(binance_df)}
        first == SetMin(buckets)
        last == SetMax(buckets)
        means == [k \in 1..(last - first + 1) |-> BucketMean(binance_df, first + k - 1)]
    IN [k \in 1..(last - first + 1) |->
           [datetime |-> (first + k - 1) * freq, mid_price |-> FfillAt(means, k)]]

Resample ==
    /\ mpc = "raw"
    /\ df_resampled' = compute_mid_prices(ticks)
    /\ mpc' = "resampled"
    /\ UNCHANGED ticks
    /\ UNCHANGED <<fetchVars, priceVars, joinVars>>

-----------------------------------------------------------------------------
(* Nearest-time join and bucketizer *)

RECURSIVE sort_values(_, _)
\* the rows of s ascending by column f, rows of equal key in their input order
sort_values(s, f) ==
    IF s = <<>> THEN <<>>
    ELSE LET rest == sort_values(SubSeq(s, 1, Len(s) - 1), f)
             x == s[Len(s)]
             n == Cardinality({i \in 1..Len(rest) : rest[i][f] <= x[f]})
         IN SubSeq(rest, 1, n) \o <<x>> \o SubSeq(rest, n + 1, Len(rest))

\* a plausible slip: equidistant neighbours resolved toward the later row
NearestLater(t, right) ==
    LET B == {j \in 1..Len(right) : right[j].datetime <= t}
        F == {j \in 1..Len(right) : right[j].datetime >= t}
        bli == IF B = {} THEN 0 ELSE SetMax(B)
        fli == IF F = {} THEN 0 ELSE SetMin(F)
    IN IF bli # 0 /\ fli # 0
         THEN IF t - right[bli].datetime < right[fli].datetime - t THEN bli ELSE fli
         ELSE IF bli # 0 THEN bli ELSE fli

\* pd.merge_asof(..., direction="nearest") for one left key t: the last right
\* row at or before t and the first at or after t are compared, and the
\* backward one is taken unless the forward one is strictly closer.
\* 0 when `right` is empty.
Nearest(t, right) ==
    LET B == {j \in 1..Len(right) : right[j].datetime <= t}
        F == {j \in 1..Len(right) : right[j].datetime >= t}
        bli == IF B = {} THEN 0 ELSE SetMax(B)
        fli == IF F = {} THEN 0 ELSE SetMin(F)
    IN IF bli # 0 /\ fli # 0
         THEN IF t - right[bli].datetime <= right[fli].datetime - t THEN bli ELSE fli
         ELSE IF bli # 0 THEN bli ELSE fli

merge_with_midprice(trades, mids) ==
    LET df_sorted == sort_values(trades, "timestamp_dt")
        mid_sorted == sort_values(mids, "datetime")
    IN [i \in 1..Len(df_sorted) |->
          LET l == df_sorted[i]
              r == mid_sorted[Nearest(l.timestamp_dt, mid_sorted)]
          IN [timestamp_dt |-> l.timestamp_dt,
              realized_price |-> l.realized_price,
              trade_size_usd |-> l.trade_size_usd,
              datetime |-> r.datetime,
              mid_price |-> r.mid_price,
              price_diff |-> l.realized_price - r.mid_price]]

\* bucket_by_trade_size(merged_v2, "trade_size_usd", 10)
n_buckets == 10

\* The bin edges of pd.qcut(x, q, duplicates='drop'), each multiplied by q:
\* the quantiles i / q (i = 0..q) of the column by linear interpolation between
\* the two nearest order statistics, equal edges kept once (q >= 2).
qcut_bins(s, f, q) ==
    LET v == sort_values(s, f)
        m == Len(v)
        edge(i) == LET p == i * (m - 1)
                       lo == p \div q
                       r == p % q
                   IN IF r = 0 THEN q * v[lo + 1][f]
                      ELSE q * v[lo + 1][f] + r * (v[lo + 2][f] - v[lo + 1][f])
    IN SortedSeq({edge(i) : i \in 0..q})

\* The bin of value x among the intervals (bins[k], bins[k+1]], the lowest edge
\* included in the first one; 0 (NaN) when x falls in no interval.
qcut_code(x, bins, q) ==
    LET below == Cardinality({k \in 1..Len(bins) : bins[k] < q * x})
        ids == IF q * x = bins[1] THEN 1 ELSE below
    IN IF ids = 0 \/ ids = Len(bins) THEN 0 ELSE ids

\* df.groupby("bucket")["price_diff"].mean().reset_index(), avg_cost_diff
\* renamed: one row per interval (category), in increasing order of the
\* intervals; rows of bucket NaN belong to no group, and an interval without
\* rows has the mean NaN (0 / 0).  A single edge bounds no interval: the
\* result is then empty.
bucket_by_trade_size(s, size_col, q) ==
    LET bins == qcut_bins(s, size_col, q)
        rowsIn(k) == {i \in 1..Len(s) : qcut_code(s[i][size_col], bins, q) = k}
    IN [k \in 1..(Len(bins) - 1) |->
          [bucket |-> <<bins[k], bins[k + 1]>>,
           avg_cost_diff |-> Div(SumOf(s, rowsIn(k), "price_diff"),
                                 Cardinality(rowsIn(k)))]]

Merge ==
    /\ apc = "loaded"
    /\ merged' = merge_with_midprice(df, midprices_df)
    /\ apc' = "merged"
    /\ UNCHANGED <<df, midprices_df, grouped>>
    /\ UNCHANGED <<fetchVars, priceVars, midVars>>

\* df["bucket"] = pd.qcut(df[size_col], q=n_buckets, duplicates='drop'): the
\* table passed in gets the bucket column (0 for NaN)
with_bucket(s, size_col, q) ==
    [i \in 1..Len(s) |->
        s[i] @@ [bucket |-> qcut_code(s[i][size_col], qcut_bins(s, size_col, q), q)]]

Bucket ==
    /\ apc = "merged"
    /\ grouped' = bucket_by_trade_size(merged, "trade_size_usd", n_buckets)
    /\ merged' = with_bucket(merged, "trade_size_usd", n_buckets)
    /\ apc' = "bucketed"
    /\ UNCHANGED <<df, midprices_df>>
    /\ UNCHANGED <<fetchVars, priceVars, midVars>>

-----------------------------------------------------------------------------
(* The states of the components that a specification leaves at rest *)

FetchIdle ==
    /\ venue = "v2" /\ batch_size = 1 /\ store = [i \in 1..MaxId |-> NoRecord]
    /\ pc = "returned" /\ all_swaps = <<>> /\ last_id = 0
    /\ responses = <<>> /\ result = <<>>

PriceIdle ==
    /\ pvenue = "cow" /\ trade = [sellAmount |-> 0, buyAmount |-> 0]
    /\ ppc = "priced" /\ realized_price = [num |-> 0, den |-> 0]

MidIdle == ticks = <<>> /\ mpc = "resampled" /\ df_resampled = <<>>

JoinIdle ==
    /\ df = <<>> /\ midprices_df = <<>> /\ apc = "bucketed"
    /\ merged = <<>> /\ grouped = <<>>

-----------------------------------------------------------------------------
(* The fetchers against an arbitrary upstream *)

\* all_swaps = [] ; last_id = "" ; the arguments and the upstream are inputs
InitFetch ==
    /\ venue \in Venues
    /\ batch_size \in 1..MaxBatch
    /\ store \in [1..MaxId -> SymbolPairs \cup {NoRecord}]
    /\ pc = "loop"
    /\ all_swaps = <<>>
    /\ last_id = 0
    /\ responses = <<>>
    /\ result = <<>>

Init == InitFetch /\ PriceIdle /\ MidIdle /\ JoinIdle

Next == Iterate \/ PostProcess

Spec == Init /\ [][Next]_vars

(* The fetchers against the keyset upstream.  The loop is sequential and
   synchronous: a pass that can run does run. *)
NextKeyset == IterateKeyset \/ PostProcess

\* the upstream holds any set of records with distinct ids
InitKeyset ==
    /\ InitFetch
    /\ store \in [1..MaxId -> {<<"WETH", "USDT">>, <<"WETH", "DAI">>, NoRecord}]
    /\ PriceIdle /\ MidIdle /\ JoinIdle

SpecKeyset == InitKeyset /\ [][NextKeyset]_vars /\ WF_vars(NextKeyset)

-----------------------------------------------------------------------------
(* Claims about the fetchers *)

WellFormed(k) == responses[k] \in {"page", "empty"}
WellFormedRun == \A k \in 1..Len(responses) : WellFormed(k)

StrictlyIncreasingIds(rows) ==
    \A i, j \in 1..Len(rows) : i < j => rows[i].id < rows[j].id

LoopEnded == pc # "loop"

\* C1: in a run whose responses are all well-formed (the upstream answering
\* with rows of id > lastID, ascending), the accumulated rows are strictly
\* increasing in id (so no id occurs twice), no request follows an empty page,
\* and the loop has ended exactly when the last response is an empty page.
C1_PagesIncreaseAndStopAtEmpty ==
    WellFormedRun =>
        /\ StrictlyIncreasingIds(all_swaps)
        /\ \A k \in 1..Len(responses) : responses[k] = "empty" => k = Len(responses)
        /\ LoopEnded <=> (responses # <<>> /\ responses[Len(responses)] = "empty")

\* two non-empty pages, then the empty page that ends the loop
C1_Witness ==
    /\ pc = "returned" /\ WellFormedRun
    /\ responses = <<"page", "page", "empty">>
    /\ Len(all_swaps) = 3

\* C2: once a response lacks "data" or the entity list, no further request is
\* made, the fetcher does not raise, and what it returns is the pair-filtered
\* rows accumulated before that response, however many pages came before.
C2_MalformedStopsAndReturnsPartial ==
    \A k \in 1..Len(responses) :
        ~WellFormed(k) =>
            /\ k = Len(responses)
            /\ LoopEnded
            /\ pc # "raised"
            /\ pc = "returned" =>
                   result = SelectSeq(all_swaps, LAMBDA row : is_weth_usdt(venue, row))

\* C3: when the first page is empty, the fetcher returns an empty table and
\* does not raise.
C3_EmptyFetchReturnsEmptyTable ==
    responses = <<"empty">> =>
        /\ pc # "raised"
        /\ pc = "returned" => result = <<>>

\* C4: the rows a fetcher returns are exactly the accumulated rows whose set of
\* two symbols equals the set of the two symbols of token_pair.
C4_FilterIsExactPairMatch ==
    pc = "returned" =>
        result = SelectSeq(all_swaps, LAMBDA row : {row.t0, row.t1} = Range(token_pair))

InWindow == {i \in 1..MaxId : store[i] # NoRecord}

CeilDiv(a, b) == (a + b - 1) \div b

\* C10: against the keyset upstream holding N records, the loop ends, after
\* exactly ceil(N / batch_size) + 1 requests, and the accumulated rows are the
\* N records, each once (in ascending id order).
C10_KeysetTotalCorrectness ==
    /\ <>LoopEnded
    /\ [](LoopEnded =>
            /\ Len(responses) = CeilDiv(Cardinality(InWindow), batch_size) + 1
            /\ all_swaps = RowsOf(SortedSeq(InWindow)))

\* three records fetched with batch_size 2: a full page, a short page, an empty one
C10_Witness ==
    /\ LoopEnded
    /\ Cardinality(InWindow) = 3 /\ batch_size = 2
    /\ responses = <<"page", "page", "empty">>
    /\ Len(all_swaps) = 3

-----------------------------------------------------------------------------
(* The normalizers on one raw trade *)

V2Rows == [amount0In : 0..MaxAmount, amount0Out : 0..MaxAmount,
           amount1In : 0..MaxAmount, amount1Out : 0..MaxAmount]
V3Rows == [amount0 : (-MaxAmount)..MaxAmount, amount1 : (-MaxAmount)..MaxAmount]
CowRows == [sellAmount : 0..MaxAmount, buyAmount : 0..MaxAmount]

InitPrices ==
    /\ pvenue \in Venues
    /\ trade \in (CASE pvenue = "v2" -> V2Rows [] pvenue = "v3" -> V3Rows
                    [] pvenue = "cow" -> CowRows)
    /\ ppc = "raw"
    /\ realized_price = Div(0, 0)
    /\ FetchIdle /\ MidIdle /\ JoinIdle

NextPrices == Normalize

SpecPrices == InitPrices /\ [][NextPrices]_vars

(* The resampler on one tick series *)

Ticks == [datetime : 0..MaxTickTime, mid_price : TickPrices]

InitMid ==
    /\ ticks \in UNION {[1..n -> Ticks] : n \in 1..MaxTicks}
    /\ mpc = "raw"
    /\ df_resampled = <<>>
    /\ FetchIdle /\ PriceIdle /\ JoinIdle

NextMid == Resample

SpecMid == InitMid /\ [][NextMid]_vars

-----------------------------------------------------------------------------
(* Claims about the normalizers and the resampler *)

\* C5: the Uniswap v2 price is quote over base in both directions:
\* amount1In / amount0Out when amount0Out > 0, and amount1Out / amount0In
\* otherwise.
C5_V2PriceIsQuotePerBase ==
    (ppc = "priced" /\ pvenue = "v2") =>
        SameQuotient(realized_price,
                     IF trade.amount0Out > 0
                       THEN Div(trade.amount1In, trade.amount0Out)
                       ELSE Div(trade.amount1Out, trade.amount0In))

\* C6: for each normalizer, realized_price > 0 whenever neither amount used in
\* the ratio is zero (v3 amounts being signed).
C6_PricePositive ==
    (ppc = "priced" /\ realized_price.num # 0 /\ realized_price.den # 0) =>
        Positive(realized_price)

BucketsOfTicks == {BucketOf(ticks[i].datetime) : i \in 1..Len(ticks)}

\* C9: compute_mid_prices gives one row per bucket from the first to the last
\* tick, in increasing time order without a missing bucket; a bucket with ticks
\* holds their mean, a bucket without ticks holds the value of the most recent
\* earlier bucket that has ticks.
C9_ResampleMeanAndForwardFill ==
    mpc = "resampled" =>
        LET first == SetMin(BucketsOfTicks)
            last == SetMax(BucketsOfTicks)
        IN /\ Len(df_resampled) = last - first + 1
           /\ \A k \in 1..Len(df_resampled) :
                LET b == first + k - 1
                    src == SetMax({c \in BucketsOfTicks : c <= b})
                    I == TicksIn(ticks, src)
                    row == df_resampled[k]
                IN /\ row.datetime = b * freq
                   /\ row.mid_price.den # 0
                   /\ row.mid_price.num * Cardinality(I)
                        = SumOf(ticks, I, "mid_price") * row.mid_price.den

\* minute 0 = 100, minute 1 without tick, minute 2 = 102: minute 1 holds 100
C9_Witness ==
    /\ mpc = "resampled"
    /\ ticks = <<[datetime |-> 0, mid_price |-> 100],
                 [datetime |-> 2 * freq, mid_price |-> 102]>>
    /\ Len(df_resampled) = 3
    /\ df_resampled[2] = [datetime |-> freq, mid_price |-> Div(100, 1)]

-----------------------------------------------------------------------------
(* The join and the bucketizer on bounded tables *)

\* the mid-price table: one row per datetime of a set D, ascending
MidRows(D) ==
    LET ts == SortedSeq(D)
    IN [k \in 1..Len(ts) |-> [datetime |-> ts[k], mid_price |-> 100 + ts[k]]]

NextAnalysis == Merge \/ Bucket

JoinTrades == [timestamp_dt : 0..MaxTime, realized_price : {105},
               trade_size_usd : {100, 250}]

\* trades at any times against mid-price rows at any non-empty set of times
InitJoin ==
    /\ df \in UNION {[1..n -> JoinTrades] : n \in 1..MaxTrades}
    /\ midprices_df \in {MidRows(D) : D \in SUBSET (0..MaxTime) \ {{}}}
    /\ apc = "loaded"
    /\ merged = <<>>
    /\ grouped = <<>>
    /\ FetchIdle /\ PriceIdle /\ MidIdle

SpecJoin == InitJoin /\ [][NextAnalysis]_vars

SameTimeTrades == [timestamp_dt : {0}, realized_price : {103, 105},
                   trade_size_usd : {100, 250}]

\* simultaneous trades of any sizes and prices against one mid-price row
InitBucket ==
    /\ df \in UNION {[1..n -> SameTimeTrades] : n \in 1..MaxSameTrades}
    /\ midprices_df = MidRows({0})
    /\ apc = "loaded"
    /\ merged = <<>>
    /\ grouped = <<>>
    /\ FetchIdle /\ PriceIdle /\ MidIdle

SpecBucket == InitBucket /\ [][NextAnalysis]_vars

-----------------------------------------------------------------------------
(* Claims about the join and the bucketizer *)

Dist(a, b) == Abs(a - b)

IsMidRow(dt, mp) ==
    \E j \in 1..Len(midprices_df) :
        midprices_df[j].datetime = dt /\ midprices_df[j].mid_price = mp

\* C7: every trade is joined to the mid-price row closest in time to its
\* timestamp_dt, the earlier row when two rows are equally close, and
\* price_diff is realized_price minus the mid_price of that row.
C7_NearestJoinEarlierOnTie ==
    apc # "loaded" =>
        /\ Len(merged) = Len(df)
        /\ \A i \in 1..Len(df) : \E k \in 1..Len(merged) :
               /\ merged[k].timestamp_dt = df[i].timestamp_dt
               /\ merged[k].realized_price = df[i].realized_price
               /\ merged[k].trade_size_usd = df[i].trade_size_usd
        /\ \A k \in 1..Len(merged) :
             LET row == merged[k]
                 d == Dist(row.datetime, row.timestamp_dt)
             IN /\ IsMidRow(row.datetime, row.mid_price)
                /\ \A j \in 1..Len(midprices_df) :
                     LET c == Dist(midprices_df[j].datetime, row.timestamp_dt)
                     IN d < c \/ (d = c /\ row.datetime <= midprices_df[j].datetime)
                /\ row.price_diff = row.realized_price - row.mid_price

\* a trade at T = 1 with mid-price rows at T - 1 and T + 1 is joined to the
\* row at T - 1
C7_Witness ==
    /\ apc = "merged"
    /\ Len(df) = 1 /\ df[1].timestamp_dt = 1
    /\ midprices_df = MidRows({0, 2})
    /\ merged[1].datetime = 0
    /\ merged[1].price_diff = 5

\* C8: three trades of size 100 and realized_price 105 against one mid-price
\* row of 100 give exactly one bucket, with avg_cost_diff = 5.0.
C8_ThreeIdenticalTradesOneBucket ==
    ( /\ apc = "bucketed"
      /\ Len(df) = 3
      /\ \A i \in 1..Len(df) : df[i].trade_size_usd = 100 /\ df[i].realized_price = 105
      /\ Len(midprices_df) = 1 /\ midprices_df[1].mid_price = 100 )
    => /\ Len(grouped) = 1
       /\ SameQuotient(grouped[1].avg_cost_diff, Div(5, 1))

=============================================================================
